---- MODULE Spec2Model ----
(***************************************************************************)
(* The session lifecycle of src/src/routes/auth.py: signup, login,         *)
(* refresh_token, confirmed_email and request_email, run as concurrent     *)
(* requests against one users table.                                       *)
(*                                                                         *)
(* A request runs atomically between the points where it awaits the        *)
(* database: the step that ends with get_user_by_email (the read) and the  *)
(* step that ends with update_token / create_user / confirmed_email (the   *)
(* write).  Nothing is awaited between the completion of the last write    *)
(* and the return statement, so the write and the return are one step.     *)
(*                                                                         *)
(* auth_service (src/servises/auth.py), the users repository               *)
(* (src/repository/users.py) and send_email (src/servises/email.py) are    *)
(* called by the routes but are not part of the sources at hand; they are  *)
(* modelled from the specification (sections 4.1 to 4.3 and 6).            *)
(***************************************************************************)
EXTENDS Integers, Sequences, FiniteSets, TLC

\* ------------------------------------------------------------- bounds
\* The clock runs from 0 to MaxTime.
MaxTime == 3
\* The number of requests that can be in flight at once.
NCalls == 2

Calls == 1..NCalls
Emails == {"a"}
\* What a client can type as a password, and what accounts are created with.
Passwords == {"pw", "bad"}
SignupPasswords == {"pw"}

\* ------------------------------------------------- configuration (TTLs)
\* access_ttl, confirmation_ttl and refresh_ttl (spec 4.3), in clock units.
AccessTtl == 1
ConfirmTtl == 2
RefreshTtl == 2

VARIABLES
    users,      \* the users table: email -> row
    calls,      \* the request slots: position, arguments, locals, response
    now,        \* the clock
    issued,     \* every token encoded so far (what a client can present)
    revoked,    \* history: principals whose session was revoked by reuse
                \* detection and who have not logged in since
    lastLogin   \* history: per principal, the refresh token returned by the
                \* latest login while no refresh presenting it has succeeded

vars == <<users, calls, now, issued, revoked, lastLogin>>

\* ------------------------------------------------------------- tokens
Purposes == {"access", "refresh", "email"}

\* Python's None in a token-valued place (users.refresh_token).
NoToken == [sub |-> "", scope |-> "none", iat |-> 0, exp |-> 0, sig |-> ""]
\* A string that is no token of the codec's format.
Garbage == [sub |-> "", scope |-> "garbage", iat |-> 0, exp |-> 0, sig |-> ""]

\* TokenCodec.encode: subject, purpose, issued-at = now, expires-at = now + ttl,
\* signed with the process-wide key.
encode(subject, purpose, ttl, t) ==
    [sub |-> subject, scope |-> purpose, iat |-> t, exp |-> t + ttl, sig |-> "valid"]

\* A token whose payload or signature was altered without the key.
Tampered(tok) == [tok EXCEPT !.sig = "forged"]

\* TokenCodec.decode: the failure kind, or "ok" (the subject is then tok.sub).
decode(tok, expected, t) ==
    IF tok.scope \notin Purposes THEN "Malformed"
    ELSE IF tok.sig # "valid" THEN "BadSignature"
    ELSE IF t > tok.exp THEN "Expired"
    ELSE IF tok.scope # expected THEN "WrongPurpose"
    ELSE "ok"

create_access_token(email, t) == encode(email, "access", AccessTtl, t)
create_refresh_token(email, t) == encode(email, "refresh", RefreshTtl, t)
create_email_token(email, t) == encode(email, "email", ConfirmTtl, t)
decode_refresh_token(tok, t) == decode(tok, "refresh", t)
get_email_from_token(tok, t) == decode(tok, "email", t)

\* What a client can put in a request: a token it was given, an altered copy of
\* one, or something that is no token.
Presentable == issued \cup {Tampered(x) : x \in issued} \cup {Garbage}

\* ---------------------------------------------------------- passwords
get_password_hash(p) == <<"hash", p>>
verify_password(p, h) == h = <<"hash", p>>

\* ------------------------------------------------------ the users table
\* Python's None in a user-valued place (get_user_by_email finds no row).
NoUser == [email |-> "", password |-> <<>>, confirmed |-> FALSE, refresh_token |-> NoToken]

get_user_by_email(email) == IF email \in DOMAIN users THEN users[email] ELSE NoUser

\* create_user: a new row, confirmed = false, no stored refresh token.
NewUser(email, hash) ==
    [email |-> email, password |-> hash, confirmed |-> FALSE, refresh_token |-> NoToken]

\* update_token(user, token, db): user.refresh_token = token; commit.
update_token(user, tok) ==
    [users EXCEPT ![user.email] = [@ EXCEPT !.refresh_token = tok]]

\* repository confirmed_email(email, db): user.confirmed = True; commit.
set_confirmed(email) ==
    [users EXCEPT ![email] = [@ EXCEPT !.confirmed = TRUE]]

\* ------------------------------------------------------- request slots
NoPair == [access_token |-> NoToken, refresh_token |-> NoToken]

Idle ==
    [pc |-> "idle", op |-> "", email |-> "", password |-> <<>>, token |-> NoToken,
     user |-> NoUser, result |-> "", pair |-> NoPair, over |-> {}]

\* A request that has responded: what it was asked and what it answered.  Of a
\* presented string that is no genuine token of the codec (Malformed,
\* BadSignature) nothing is kept.
Done(op, email, tok, result, pair, over) ==
    [pc |-> "done", op |-> op, email |-> email, password |-> <<>>, token |-> tok,
     user |-> NoUser, result |-> result, pair |-> pair, over |-> over]

Kept(tok, d) == IF d \in {"Malformed", "BadSignature"} THEN NoToken ELSE tok

\* The other requests that have read the table and not yet written to it.
InFlight(c) == {d \in Calls \ {c} : calls[d].pc \in {"write", "create"}}

TypeOK ==
    /\ now \in 0..MaxTime
    /\ DOMAIN users \subseteq Emails
    /\ revoked \subseteq Emails
    /\ DOMAIN calls = Calls

Init ==
    /\ users = <<>>
    /\ calls = [c \in Calls |-> Idle]
    /\ now = 0
    /\ issued = {}
    /\ revoked = {}
    /\ lastLogin = [e \in Emails |-> NoToken]

\* ---------------------------------------------------------------- login
\* LoginCheck with the password verified before the confirmed flag is looked at.
LoginCheck_PasswordFirst(user, password) ==
    IF user = NoUser THEN "NotFound"
    ELSE IF ~verify_password(password, user.password) THEN "BadCredentials"
    ELSE IF ~user.confirmed THEN "Unconfirmed"
    ELSE "ok"

\* LoginCheck that refuses a principal whose stored refresh token is null.
LoginCheck_LockedOut(user, password) ==
    IF user = NoUser THEN "NotFound"
    ELSE IF ~user.confirmed THEN "Unconfirmed"
    ELSE IF ~verify_password(password, user.password) THEN "BadCredentials"
    ELSE IF user.refresh_token = NoToken THEN "BadCredentials"
    ELSE "ok"

\* LoginCheck without the test of user.confirmed (lines 85-88).
LoginCheck_NoConfirm(user, password) ==
    IF user = NoUser THEN "NotFound"
    ELSE IF ~verify_password(password, user.password) THEN "BadCredentials"
    ELSE "ok"

\* Lines 81-92: the checks on the row that was read, in the code's order.
LoginCheck(user, password) ==
    IF user = NoUser THEN "NotFound"
    ELSE IF ~user.confirmed THEN "Unconfirmed"
    ELSE IF ~verify_password(password, user.password) THEN "BadCredentials"
    ELSE "ok"

\* login_read with the refresh token issued and stored before the password is
\* verified.
login_read_StoresFirst(c, email, password) ==
    /\ calls[c].pc = "idle"
    /\ LET user == get_user_by_email(email)
           check == LoginCheck(user, password)
       IN  /\ calls' = [calls EXCEPT ![c] =
                IF check = "ok"
                THEN [Idle EXCEPT !.pc = "write", !.op = "login", !.email = email,
                                  !.user = user]
                ELSE Done("login", email, NoToken, check, NoPair, {})]
           /\ IF check = "BadCredentials"
              THEN /\ users' = update_token(user, create_refresh_token(email, now))
                   /\ issued' = issued \cup {create_refresh_token(email, now)}
              ELSE UNCHANGED <<users, issued>>
    /\ UNCHANGED <<now, revoked, lastLogin>>

\* Lines 80-92: read the row, fail or go on to issue the session.
login_read(c, email, password) ==
    /\ calls[c].pc = "idle"
    /\ LET user == get_user_by_email(email)
           check == LoginCheck(user, password)
       IN  calls' = [calls EXCEPT ![c] =
                IF check = "ok"
                THEN [Idle EXCEPT !.pc = "write", !.op = "login", !.email = email,
                                  !.user = user]
                ELSE Done("login", email, NoToken, check, NoPair, {})]
    /\ UNCHANGED <<users, now, issued, revoked, lastLogin>>

\* LoginStored with the wrong member of the pair.
LoginStored_Access(pair) == pair.access_token

\* Line 96: what login stores.
LoginStored(pair) == pair.refresh_token

\* Lines 94-101: issue the pair, store the refresh token, return the pair.
login_write(c) ==
    /\ calls[c].pc = "write"
    /\ calls[c].op = "login"
    /\ LET user == calls[c].user
           pair == [access_token |-> create_access_token(user.email, now),
                    refresh_token |-> create_refresh_token(user.email, now)]
       IN  /\ users' = update_token(user, LoginStored(pair))
           /\ issued' = issued \cup {pair.access_token, pair.refresh_token}
           /\ calls' = [calls EXCEPT ![c] =
                    Done("login", user.email, NoToken, "ok", pair, InFlight(c))]
           /\ revoked' = revoked \ {user.email}
           /\ lastLogin' = [lastLogin EXCEPT ![user.email] = pair.refresh_token]
    /\ UNCHANGED now

\* -------------------------------------------------------- refresh_token
\* refresh_read that treats an expired token as a reused one and clears the
\* stored value.
refresh_read_RevokesOnExpired(c, tok) ==
    /\ calls[c].pc = "idle"
    /\ LET d == decode_refresh_token(tok, now)
           user == get_user_by_email(tok.sub)
       IN  /\ calls' = [calls EXCEPT ![c] =
                IF d # "ok" THEN Done("refresh_token", "", Kept(tok, d), d, NoPair, {})
                ELSE IF user = NoUser
                THEN Done("refresh_token", tok.sub, tok, "crash", NoPair, {})
                ELSE [Idle EXCEPT !.pc = "write", !.op = "refresh_token",
                                  !.email = tok.sub, !.token = tok, !.user = user]]
           /\ users' = IF d = "Expired" /\ user # NoUser
                       THEN update_token(user, NoToken) ELSE users
    /\ UNCHANGED <<now, issued, revoked, lastLogin>>

\* refresh_read with the token decoded by the confirmation decoder.
refresh_read_WrongDecoder(c, tok) ==
    /\ calls[c].pc = "idle"
    /\ LET d == get_email_from_token(tok, now)
           user == get_user_by_email(tok.sub)
       IN  calls' = [calls EXCEPT ![c] =
                IF d # "ok" THEN Done("refresh_token", "", Kept(tok, d), d, NoPair, {})
                ELSE IF user = NoUser
                THEN Done("refresh_token", tok.sub, tok, "crash", NoPair, {})
                ELSE [Idle EXCEPT !.pc = "write", !.op = "refresh_token",
                                  !.email = tok.sub, !.token = tok, !.user = user]]
    /\ UNCHANGED <<users, now, issued, revoked, lastLogin>>

\* Lines 122-124: decode the presented token and read the row of its subject.
\* A subject without a row makes line 125 dereference None: the request ends in
\* an unhandled AttributeError.
refresh_read(c, tok) ==
    /\ calls[c].pc = "idle"
    /\ LET d == decode_refresh_token(tok, now)
           user == get_user_by_email(tok.sub)
       IN  calls' = [calls EXCEPT ![c] =
                IF d # "ok" THEN Done("refresh_token", "", Kept(tok, d), d, NoPair, {})
                ELSE IF user = NoUser
                THEN Done("refresh_token", tok.sub, tok, "crash", NoPair, {})
                ELSE [Idle EXCEPT !.pc = "write", !.op = "refresh_token",
                                  !.email = tok.sub, !.token = tok, !.user = user]]
    /\ UNCHANGED <<users, now, issued, revoked, lastLogin>>

\* GET /auth/refresh_token with any string the client can present.
refresh_token(c) == \E tok \in Presentable : refresh_read(c, tok)

\* Line 125: the reuse check, on the row as it was read.
TokenMismatch(user, tok) == user.refresh_token # tok

\* Line 126: what is stored when reuse is detected.
StoredOnReuse == NoToken

\* Line 133: what a successful refresh stores.
RefreshStored(pair) == pair.refresh_token

\* Lines 125-138: revoke on a mismatch, else rotate and return the new pair.
refresh_write(c) ==
    /\ calls[c].pc = "write"
    /\ calls[c].op = "refresh_token"
    /\ LET user == calls[c].user
           tok == calls[c].token
           email == calls[c].email
           pair == [access_token |-> create_access_token(email, now),
                    refresh_token |-> create_refresh_token(email, now)]
       IN  IF TokenMismatch(user, tok)
           THEN /\ users' = update_token(user, StoredOnReuse)
                /\ calls' = [calls EXCEPT ![c] =
                        Done("refresh_token", email, tok, "ReuseDetected", NoPair,
                             InFlight(c))]
                /\ revoked' = revoked \cup {email}
                /\ UNCHANGED <<issued, lastLogin>>
           ELSE /\ users' = update_token(user, RefreshStored(pair))
                /\ issued' = issued \cup {pair.access_token, pair.refresh_token}
                /\ calls' = [calls EXCEPT ![c] =
                        Done("refresh_token", email, tok, "ok", pair, InFlight(c))]
                /\ lastLogin' = [lastLogin EXCEPT ![email] =
                        IF @ = tok THEN NoToken ELSE @]
                /\ UNCHANGED revoked
    /\ UNCHANGED now

\* --------------------------------------------------------------- signup
\* signup_read without the existence check (lines 56-60).
signup_read_NoConflict(c, email, password) ==
    /\ calls[c].pc = "idle"
    /\ calls' = [calls EXCEPT ![c] =
            [Idle EXCEPT !.pc = "create", !.op = "signup", !.email = email,
                         !.password = get_password_hash(password)]]
    /\ UNCHANGED <<users, now, issued, revoked, lastLogin>>

\* Lines 56-61: the existence check; the password is hashed for create_user.
signup_read(c, email, password) ==
    /\ calls[c].pc = "idle"
    /\ calls' = [calls EXCEPT ![c] =
            IF get_user_by_email(email) # NoUser
            THEN Done("signup", email, NoToken, "Conflict", NoPair, {})
            ELSE [Idle EXCEPT !.pc = "create", !.op = "signup", !.email = email,
                              !.password = get_password_hash(password)]]
    /\ UNCHANGED <<users, now, issued, revoked, lastLogin>>

\* signup_create that replaces a row that is already there.
signup_create_Upsert(c) ==
    /\ calls[c].pc = "create"
    /\ LET email == calls[c].email
       IN  /\ users' = [e \in DOMAIN users \cup {email} |->
                    IF e = email THEN NewUser(email, calls[c].password)
                    ELSE users[e]]
           /\ calls' = [calls EXCEPT ![c] =
                    [Done("signup", email, NoToken, "created", NoPair, InFlight(c))
                        EXCEPT !.pc = "bg"]]
    /\ UNCHANGED <<now, issued, revoked, lastLogin>>

\* Lines 62-64: create the row and schedule the confirmation mail.  The email
\* column is unique: inserting a second row for it fails in the database and
\* the request ends in an unhandled error.
signup_create(c) ==
    /\ calls[c].pc = "create"
    /\ LET email == calls[c].email
       IN  IF email \in DOMAIN users
           THEN /\ calls' = [calls EXCEPT ![c] =
                        Done("signup", email, NoToken, "crash", NoPair, InFlight(c))]
                /\ UNCHANGED users
           ELSE /\ users' = [e \in DOMAIN users \cup {email} |->
                        IF e = email THEN NewUser(email, calls[c].password)
                        ELSE users[e]]
                /\ calls' = [calls EXCEPT ![c] =
                        [Done("signup", email, NoToken, "created", NoPair, InFlight(c))
                            EXCEPT !.pc = "bg"]]
    /\ UNCHANGED <<now, issued, revoked, lastLogin>>

\* send_email, run as the background task of signup and request_email: encode a
\* confirmation token for the address and hand it to the mail transport.
send_email(c) ==
    /\ calls[c].pc = "bg"
    /\ issued' = issued \cup {create_email_token(calls[c].email, now)}
    /\ calls' = [calls EXCEPT ![c].pc = "done"]
    /\ UNCHANGED <<users, now, revoked, lastLogin>>

\* ------------------------------------------------------ confirmed_email
\* confirmed_read without the test of user.confirmed (lines 163-164).
confirmed_read_NoShortCircuit(c, tok) ==
    /\ calls[c].pc = "idle"
    /\ LET d == get_email_from_token(tok, now)
           user == get_user_by_email(tok.sub)
       IN  calls' = [calls EXCEPT ![c] =
                IF d # "ok" THEN Done("confirmed_email", "", Kept(tok, d), d, NoPair, {})
                ELSE IF user = NoUser
                THEN Done("confirmed_email", tok.sub, tok, "NotFound", NoPair, {})
                ELSE [Idle EXCEPT !.pc = "write", !.op = "confirmed_email",
                                  !.email = tok.sub, !.token = tok, !.user = user]]
    /\ UNCHANGED <<users, now, issued, revoked, lastLogin>>

\* Lines 157-164: decode the token, read the row, answer unless it must be
\* written.
confirmed_read(c, tok) ==
    /\ calls[c].pc = "idle"
    /\ LET d == get_email_from_token(tok, now)
           user == get_user_by_email(tok.sub)
       IN  calls' = [calls EXCEPT ![c] =
                IF d # "ok" THEN Done("confirmed_email", "", Kept(tok, d), d, NoPair, {})
                ELSE IF user = NoUser
                THEN Done("confirmed_email", tok.sub, tok, "NotFound", NoPair, {})
                ELSE IF user.confirmed
                THEN Done("confirmed_email", tok.sub, tok, "already-confirmed", NoPair, {})
                ELSE [Idle EXCEPT !.pc = "write", !.op = "confirmed_email",
                                  !.email = tok.sub, !.token = tok, !.user = user]]
    /\ UNCHANGED <<users, now, issued, revoked, lastLogin>>

\* GET /auth/confirmed_email/{token} with any string the client can present.
confirmed_email(c) == \E tok \in Presentable : confirmed_read(c, tok)

\* Lines 165-166: set the flag and answer.
confirmed_write(c) ==
    /\ calls[c].pc = "write"
    /\ calls[c].op = "confirmed_email"
    /\ users' = set_confirmed(calls[c].email)
    /\ calls' = [calls EXCEPT ![c] =
            Done("confirmed_email", calls[c].email, calls[c].token, "confirmed", NoPair,
                 InFlight(c))]
    /\ UNCHANGED <<now, issued, revoked, lastLogin>>

\* -------------------------------------------------------- request_email
\* request_email without the test of user.confirmed (lines 192-193).
request_email_NoConfirmedTest(c, email) ==
    /\ calls[c].pc = "idle"
    /\ LET user == get_user_by_email(email)
       IN  calls' = [calls EXCEPT ![c] =
                IF user = NoUser
                THEN Done("request_email", email, NoToken, "crash", NoPair, {})
                ELSE [Done("request_email", email, NoToken, "check-email", NoPair, {})
                        EXCEPT !.pc = "bg"]]
    /\ UNCHANGED <<users, now, issued, revoked, lastLogin>>

\* Lines 190-198.  Line 192 reads user.confirmed before line 194 tests user:
\* without a row the request ends in an unhandled AttributeError.
request_email(c, email) ==
    /\ calls[c].pc = "idle"
    /\ LET user == get_user_by_email(email)
       IN  calls' = [calls EXCEPT ![c] =
                IF user = NoUser
                THEN Done("request_email", email, NoToken, "crash", NoPair, {})
                ELSE IF user.confirmed
                THEN Done("request_email", email, NoToken, "already-confirmed", NoPair, {})
                ELSE [Done("request_email", email, NoToken, "check-email", NoPair, {})
                        EXCEPT !.pc = "bg"]]
    /\ UNCHANGED <<users, now, issued, revoked, lastLogin>>

\* ---------------------------------------------------------- environment
\* The response has been delivered; the slot takes the next request.
Close(c) ==
    /\ calls[c].pc = "done"
    /\ calls' = [d \in Calls |->
            IF d = c THEN Idle ELSE [calls[d] EXCEPT !.over = @ \ {c}]]
    /\ UNCHANGED <<users, now, issued, revoked, lastLogin>>

Tick ==
    /\ now < MaxTime
    /\ now' = now + 1
    /\ UNCHANGED <<users, calls, issued, revoked, lastLogin>>

Next ==
    \/ \E c \in Calls, e \in Emails, p \in SignupPasswords : signup_read(c, e, p)
    \/ \E c \in Calls : signup_create(c)
    \/ \E c \in Calls : send_email(c)
    \/ \E c \in Calls, e \in Emails, p \in Passwords : login_read(c, e, p)
    \/ \E c \in Calls : login_write(c)
    \/ \E c \in Calls : refresh_token(c)
    \/ \E c \in Calls : refresh_write(c)
    \/ \E c \in Calls : confirmed_email(c)
    \/ \E c \in Calls : confirmed_write(c)
    \/ \E c \in Calls, e \in Emails : request_email(c, e)
    \/ \E c \in Calls : Close(c)
    \/ Tick

Spec == Init /\ [][Next]_vars

\* The table without the row of a principal for whom a session was issued: the
\* row was removed in the database (the routes delete nothing) while a client
\* still holds the pair.
InitOrphaned ==
    /\ users = <<>>
    /\ calls = [c \in Calls |-> Idle]
    /\ now = 0
    /\ issued = {create_access_token(e, 0) : e \in Emails}
                    \cup {create_refresh_token(e, 0) : e \in Emails}
    /\ revoked = {}
    /\ lastLogin = [e \in Emails |-> NoToken]

SpecOrphaned == InitOrphaned /\ [][Next]_vars

\* ================================================================ claims
RefreshDone(c) == calls[c].pc = "done" /\ calls[c].op = "refresh_token"
RefreshOk(c) == RefreshDone(c) /\ calls[c].result = "ok"

\* The step in which request c ends a refresh by returning a new pair.
RefreshSucceeds(c) ==
    /\ calls[c].pc = "write"
    /\ calls[c].op = "refresh_token"
    /\ calls'[c].pc = "done"
    /\ calls'[c].result = "ok"

\* C1: of two refresh requests that present the same token and run concurrently
\* (the second had read the row when the first wrote), when one returns a new
\* pair the other fails with ReuseDetected.
C1_OneWinner ==
    \A c \in Calls : \A d \in Calls \ {c} :
        (/\ RefreshOk(c)
         /\ RefreshDone(d)
         /\ d \in calls[c].over
         /\ calls[d].token = calls[c].token)
        => calls[d].result = "ReuseDetected"

\* C2: a refresh that succeeds with token T stores and returns a token other
\* than T, and two successful refreshes that presented the same token were
\* concurrent (a later refresh presenting T does not succeed).
C2_SingleUse ==
    /\ \A c \in Calls : RefreshOk(c) => calls[c].pair.refresh_token # calls[c].token
    /\ \A c \in Calls : \A d \in Calls \ {c} :
        (RefreshOk(c) /\ RefreshOk(d) /\ calls[c].token = calls[d].token)
        => (d \in calls[c].over \/ c \in calls[d].over)

\* C3: a refresh whose token differs from the stored value as read clears the
\* stored value and fails with ReuseDetected, and once a principal's session
\* was revoked no refresh for that principal succeeds before a login does.
C3_FailClosed ==
    [][\A c \in Calls :
        /\ (/\ calls[c].pc = "write"
            /\ calls[c].op = "refresh_token"
            /\ calls[c].user.refresh_token # calls[c].token
            /\ calls'[c] # calls[c])
           => (/\ calls'[c].result = "ReuseDetected"
               /\ users'[calls[c].email].refresh_token = NoToken)
        /\ (RefreshSucceeds(c) => calls[c].email \notin revoked)]_vars

\* A refresh request presenting tok would return a new pair: one that starts
\* now, or one that has read the row and is about to write.
WouldAccept(tok) ==
    \/ /\ decode_refresh_token(tok, now) = "ok"
       /\ get_user_by_email(tok.sub) # NoUser
       /\ ~TokenMismatch(get_user_by_email(tok.sub), tok)
    \/ \E c \in Calls :
        /\ calls[c].pc = "write"
        /\ calls[c].op = "refresh_token"
        /\ calls[c].token = tok
        /\ ~TokenMismatch(calls[c].user, tok)

IssuedRefresh(e) == {tok \in issued : tok.scope = "refresh" /\ tok.sub = e}

\* C4: for every principal at most one of the refresh tokens issued for it
\* would be accepted by a refresh request, and an accepted one is the value
\* stored in the principal's row (none is accepted when that value is null).
C4_OnlyStoredAccepted ==
    \A e \in DOMAIN users :
        /\ Cardinality({tok \in IssuedRefresh(e) : WouldAccept(tok)}) <= 1
        /\ \A tok \in IssuedRefresh(e) :
                WouldAccept(tok) => users[e].refresh_token = tok

\* A login or refresh request c returns a token pair in this step.
ReturnsPair(c) ==
    /\ calls[c].pc = "write"
    /\ calls[c].op \in {"login", "refresh_token"}
    /\ calls'[c].pc = "done"
    /\ calls'[c].result = "ok"

C6_OnlyLoginSurvives ==
    \A e \in DOMAIN users :
        lastLogin[e] # NoToken => users[e].refresh_token \in {lastLogin[e], NoToken}

\* The failures other than ReuseDetected, and "crash", which is how the routes
\* end when they find no row where they expect one.
ReadOnlyFailures ==
    {"Malformed", "BadSignature", "Expired", "WrongPurpose", "NotFound", "Unconfirmed",
     "BadCredentials", "crash"}

\* C7: a request that ends in a failure other than ReuseDetected leaves every
\* principal's stored refresh token and confirmed flag as they were.
C7_FailuresReadOnly ==
    [][\A c \in Calls :
        (/\ calls[c].pc # "done"
         /\ calls'[c].pc = "done"
         /\ calls'[c].result \in ReadOnlyFailures)
        => users' = users]_vars

\* Requests have ended in Unconfirmed and in Expired or WrongPurpose while the
\* principal had a row that could have been written.
C7_Witness ==
    /\ \E c \in Calls :
        /\ calls[c].pc = "done"
        /\ calls[c].result = "BadCredentials"
        /\ users[calls[c].email].refresh_token # NoToken
    /\ \E c \in Calls :
        /\ calls[c].pc = "done"
        /\ calls[c].result \in {"Expired", "WrongPurpose"}
        /\ calls[c].token.sub \in DOMAIN users
        /\ users[calls[c].token.sub].refresh_token # NoToken

\* C8: login fails NotFound without a row, Unconfirmed for an unconfirmed
\* principal whatever the password (no token issued, none stored), and
\* BadCredentials only for an existing, confirmed principal.
C8_LoginOrder ==
    [][\A c \in Calls : \A e \in Emails : \A p \in Passwords :
        (calls[c].pc = "idle" /\ login_read(c, e, p)) =>
            LET user == get_user_by_email(e)
            IN  /\ user = NoUser => calls'[c].result = "NotFound"
                /\ (user # NoUser /\ ~user.confirmed) =>
                        /\ calls'[c].pc = "done"
                        /\ calls'[c].result = "Unconfirmed"
                        /\ calls'[c].pair = NoPair
                        /\ issued' = issued
                        /\ users' = users
                /\ calls'[c].result = "BadCredentials" =>
                        (user # NoUser /\ user.confirmed)]_vars

\* Logins have failed with Unconfirmed on an unconfirmed principal and with
\* BadCredentials on a confirmed one.
C8_Witness ==
    \E c \in Calls :
        /\ calls[c].op = "login"
        /\ calls[c].result = "Unconfirmed"
        /\ calls[c].email \in DOMAIN users
        /\ ~users[calls[c].email].confirmed
        /\ users[calls[c].email].refresh_token = NoToken
        /\ \E d \in Calls \ {c} : calls[d].op = "login" /\ calls[d].result = "NotFound"

Genuine(tok) == tok.scope \in Purposes /\ tok.sig = "valid"

\* C9: a refresh presented with a genuine, unexpired access or confirmation
\* token, and a confirmation presented with a genuine, unexpired access or
\* refresh token, fail with WrongPurpose and write nothing, whether or not the
\* token names an existing principal.
C9_PurposeChecked ==
    [][\A c \in Calls : \A tok \in Presentable :
        /\ (/\ calls[c].pc = "idle"
            /\ Genuine(tok)
            /\ now <= tok.exp
            /\ tok.scope \in {"access", "email"}
            /\ refresh_read(c, tok))
           => (/\ calls'[c].pc = "done"
               /\ calls'[c].result = "WrongPurpose"
               /\ users' = users)
        /\ (/\ calls[c].pc = "idle"
            /\ Genuine(tok)
            /\ now <= tok.exp
            /\ tok.scope \in {"access", "refresh"}
            /\ confirmed_read(c, tok))
           => (/\ calls'[c].pc = "done"
               /\ calls'[c].result = "WrongPurpose"
               /\ users' = users)]_vars

\* A refresh has refused a confirmation token and a confirmation has refused a
\* refresh token, both naming an existing principal and both still unexpired.
C9_Witness ==
    \E c \in Calls : \E d \in Calls \ {c} :
        /\ calls[c].op = "refresh_token"
        /\ calls[c].result = "WrongPurpose"
        /\ calls[c].token.scope = "email"
        /\ calls[c].token.sub \in DOMAIN users
        /\ now <= calls[c].token.exp
        /\ calls[d].op = "confirmed_email"
        /\ calls[d].result = "WrongPurpose"
        /\ calls[d].token.scope = "refresh"
        /\ calls[d].token.sub \in DOMAIN users
        /\ now <= calls[d].token.exp

\* C10: a refresh made after the presented refresh token's expires-at fails
\* with Expired and leaves the stored value alone, also when the token is the
\* stored value; one made a time unit before expires-at with the stored token
\* passes the reuse check and returns a new pair.
C10_ExpiryEnforced ==
    [][\A c \in Calls :
        /\ \A tok \in Presentable :
            (/\ calls[c].pc = "idle"
             /\ Genuine(tok)
             /\ tok.scope = "refresh"
             /\ refresh_read(c, tok)) =>
                /\ now > tok.exp =>
                        /\ calls'[c].pc = "done"
                        /\ calls'[c].result = "Expired"
                        /\ users' = users
                /\ (now = tok.exp - 1 /\ get_user_by_email(tok.sub).refresh_token = tok) =>
                        /\ calls'[c].pc = "write"
                        /\ calls'[c].user.refresh_token = tok
        /\ (/\ calls[c].pc = "write"
            /\ calls[c].op = "refresh_token"
            /\ calls[c].user.refresh_token = calls[c].token
            /\ calls'[c] # calls[c])
           => calls'[c].result = "ok"]_vars

\* A refresh presenting the stored token after its expiry has failed with
\* Expired, and the token is still stored.
C10_Witness ==
    \E c \in Calls :
        /\ calls[c].op = "refresh_token"
        /\ calls[c].result = "Expired"
        /\ calls[c].token.sub \in DOMAIN users
        /\ users[calls[c].token.sub].refresh_token = calls[c].token
        /\ now > calls[c].token.exp

\* C11: with a genuine, unexpired confirmation token of an existing principal,
\* confirm_email answers already-confirmed and writes nothing when the
\* principal is confirmed, and otherwise sets confirmed, leaves the rest of the
\* row (the stored refresh token included) alone and answers confirmed: a
\* second confirmation with the same token changes nothing more.
C11_ConfirmIdempotent ==
    [][\A c \in Calls :
        /\ \A tok \in Presentable :
            (/\ calls[c].pc = "idle"
             /\ Genuine(tok)
             /\ tok.scope = "email"
             /\ now <= tok.exp
             /\ tok.sub \in DOMAIN users
             /\ confirmed_read(c, tok))
            => /\ users' = users
               /\ IF users[tok.sub].confirmed
                  THEN calls'[c].pc = "done" /\ calls'[c].result = "already-confirmed"
                  ELSE calls'[c].pc = "write"
        /\ (/\ calls[c].pc = "write"
            /\ calls[c].op = "confirmed_email"
            /\ calls'[c] # calls[c])
           => /\ calls'[c].result = "confirmed"
              /\ users' = [users EXCEPT ![calls[c].email] = [@ EXCEPT !.confirmed = TRUE]]
              /\ users'[calls[c].email].refresh_token = users[calls[c].email].refresh_token]_vars

\* One confirmation has answered confirmed and another, with the same token,
\* already-confirmed.
C11_Witness ==
    \E c \in Calls : \E d \in Calls \ {c} :
        /\ calls[c].op = "confirmed_email"
        /\ calls[c].result = "confirmed"
        /\ calls[d].op = "confirmed_email"
        /\ calls[d].result = "already-confirmed"
        /\ calls[d].token = calls[c].token
        /\ users[calls[c].email].confirmed

\* C12: a principal's row is created with confirmed = false, by a signup for
\* its email; a row never disappears; a confirmed flag that is true stays
\* true; and the flag changes only in the write of a confirm_email request
\* whose genuine confirmation token names that principal.
C12_ConfirmedMonotone ==
    [][\A e \in Emails :
        /\ (e \notin DOMAIN users /\ e \in DOMAIN users')
           => /\ ~users'[e].confirmed
              /\ users'[e].refresh_token = NoToken
              /\ \E c \in Calls :
                    /\ calls[c].op = "signup"
                    /\ calls[c].pc = "create"
                    /\ calls[c].email = e
                    /\ calls'[c].result = "created"
        /\ e \in DOMAIN users
           => /\ e \in DOMAIN users'
              /\ users[e].confirmed => users'[e].confirmed
              /\ users'[e].confirmed # users[e].confirmed
                 => \E c \in Calls :
                        /\ calls[c].op = "confirmed_email"
                        /\ calls[c].pc = "write"
                        /\ Genuine(calls[c].token)
                        /\ calls[c].token.scope = "email"
                        /\ calls[c].token.sub = e
                        /\ calls'[c].result = "confirmed"]_vars

\* A signup that passed the existence check and then found the row created by
\* another signup has ended, and the principal is confirmed.
C12_Witness ==
    \E c \in Calls :
        /\ calls[c].op = "signup"
        /\ calls[c].result = "crash"
        /\ calls[c].email \in DOMAIN users
        /\ users[calls[c].email].confirmed

\* C13: request_confirmation schedules the confirmation mail exactly when the
\* principal exists and is unconfirmed, answers already-confirmed and schedules
\* nothing for a confirmed principal, and neither the request nor the sending
\* of the mail writes to the users table.
C13_MailOnlyIfUnconfirmed ==
    [][\A c \in Calls :
        /\ \A e \in Emails :
            (calls[c].pc = "idle" /\ request_email(c, e))
            => /\ users' = users
               /\ calls'[c].pc = "bg" <=> (e \in DOMAIN users /\ ~users[e].confirmed)
               /\ (e \in DOMAIN users /\ users[e].confirmed)
                  => (calls'[c].pc = "done" /\ calls'[c].result = "already-confirmed")
        /\ (/\ calls[c].pc = "bg"
            /\ calls[c].op = "request_email"
            /\ calls'[c] # calls[c])
           => /\ users' = users
              /\ create_email_token(calls[c].email, now) \in issued'
              /\ calls'[c].result = "check-email"]_vars

\* One request has had its confirmation mail sent and a later one, for the
\* principal now confirmed, was answered already-confirmed.
C13_Witness ==
    \E c \in Calls : \E d \in Calls \ {c} :
        /\ calls[c].op = "request_email"
        /\ calls[c].pc = "done"
        /\ calls[c].result = "check-email"
        /\ \E tok \in issued : tok.scope = "email" /\ tok.sub = calls[c].email
        /\ calls[d].op = "request_email"
        /\ calls[d].result = "already-confirmed"
        /\ calls[d].email = calls[c].email
        /\ users[calls[d].email].confirmed

\* C14: a refresh whose token decodes to a subject without a row fails with
\* NotFound and writes nothing.
C14_RefreshNotFound ==
    [][\A c \in Calls : \A tok \in Presentable :
        (/\ calls[c].pc = "idle"
         /\ decode_refresh_token(tok, now) = "ok"
         /\ tok.sub \notin DOMAIN users
         /\ refresh_read(c, tok))
        => (/\ calls'[c].pc = "done"
            /\ calls'[c].result = "NotFound"
            /\ users' = users)]_vars

\* A step of the system that clears principal e's stored refresh token other
\* than by a refresh that ends in ReuseDetected: what a logout would be.
ClearsSession(e) ==
    /\ Next
    /\ users'[e].refresh_token = NoToken
    /\ \A c \in Calls : calls'[c] # calls[c] => calls'[c].result # "ReuseDetected"

\* C15: a principal with a stored refresh token can be logged out: an operation
\* of the system sets the stored token to null, without a reuse detection.
C15_LogoutOffered ==
    \A e \in DOMAIN users :
        users[e].refresh_token # NoToken => ENABLED ClearsSession(e)

C17_ReloginRecovers ==
    [][\A c \in Calls :
        /\ \A e \in Emails : \A p \in Passwords :
            (/\ calls[c].pc = "idle"
             /\ e \in DOMAIN users
             /\ users[e].confirmed
             /\ verify_password(p, users[e].password)
             /\ login_read(c, e, p))
            => (/\ calls'[c].pc = "write"
                /\ calls'[c].op = "login"
                /\ calls'[c].email = e)
        /\ (/\ calls[c].pc = "write"
            /\ calls[c].op = "login"
            /\ login_write(c))
           => (/\ calls'[c].result = "ok"
               /\ calls'[c].pair.refresh_token # NoToken
               /\ users'[calls[c].email].refresh_token = calls'[c].pair.refresh_token
               /\ calls[c].email \notin revoked')]_vars

\* A login has passed the checks for a principal that is revoked: reuse
\* detection cleared its stored refresh token.
C17_Witness ==
    \E c \in Calls :
        /\ calls[c].op = "login"
        /\ calls[c].pc = "write"
        /\ calls[c].email \in revoked
        /\ users[calls[c].email].refresh_token = NoToken
        /\ calls[c].user.refresh_token = NoToken

\* C18: a principal whose stored refresh token is not null is confirmed.
C18_SessionImpliesConfirmed ==
    \A e \in DOMAIN users :
        users[e].refresh_token # NoToken => users[e].confirmed

\* A principal holds a stored refresh token that a refresh rotated in, and is
\* confirmed.
C18_Witness ==
    \E e \in DOMAIN users :
        /\ users[e].refresh_token # NoToken
        /\ users[e].confirmed
        /\ \E c \in Calls :
            /\ calls[c].op = "refresh_token"
            /\ calls[c].result = "ok"
            /\ calls[c].pair.refresh_token = users[e].refresh_token

\* C19: request_confirmation for an email that has no principal answers
\* "check your email", schedules no mail and changes no state.
C19_UnknownEmailAnswered ==
    [][\A c \in Calls : \A e \in Emails :
        (/\ calls[c].pc = "idle"
         /\ e \notin DOMAIN users
         /\ request_email(c, e))
        => (/\ calls'[c].pc = "done"
            /\ calls'[c].result = "check-email"
            /\ users' = users
            /\ issued' = issued)]_vars

====
